---- MODULE Spec2Model ----
(***************************************************************************)
(* Model of AdvancedPlaywrightManager (src/utils/playwright_utils.py), of   *)
(* the admin / debug scale endpoints and of the startup and shutdown       *)
(* events of src/main.py.                                                  *)
(*                                                                         *)
(* The program runs on one asyncio event loop: a task runs without         *)
(* interruption from one await that really suspends to the next one.       *)
(* Every action below is one such run of one task.  The handler code is    *)
(* written as functions from a manager state (the record S) to the next    *)
(* manager state, so that the code executed between two suspension points  *)
(* is one atomic step, exactly as the event loop executes it.              *)
(***************************************************************************)
EXTENDS Integers, Sequences, FiniteSets, TLC

VARIABLES
    cfg,            \* constructor arguments (fixed after __init__)
    playwright,     \* self.playwright is not None
    pw_starts,      \* number of completed async_playwright().start() calls
    browsers,       \* self.browsers: sequence of instance ids, in pool order
    inst,           \* every BrowserInstance ever created, by id
    lock,           \* self.lock: owner and FIFO queue of waiters
    cleanup_task,   \* self.cleanup_task: "none" (None) | "running" |
                    \* "cancelled" (a Task that has ended)
    stats,          \* self.stats
    pc,             \* the suspension point each task is at
    loc,            \* the local variables of each task
    now             \* the event loop clock

vars == <<cfg, playwright, pw_starts, browsers, inst, lock, cleanup_task,
          stats, pc, loc, now>>

----------------------------------------------------------------------------
(* Bounds of the model *)

NumCallers == 3
NumScalers == 1
NumInits == 2
MaxTime == 2
MaxTarget == 4
MaxArg == 2
MaxTabsArg == 1

Callers == 1..NumCallers                                \* get_page callers
Scalers == (NumCallers + 1)..(NumCallers + NumScalers)  \* scale requests
ReaperId == NumCallers + NumScalers + 1                 \* self.cleanup_task
Inits == (ReaperId + 1)..(ReaperId + NumInits)          \* initialize() callers
CloserId == ReaperId + NumInits + 1                     \* the close() call
Tasks == 1..CloserId

NoTask == 0
NoInst == 0

----------------------------------------------------------------------------
(* The manager state as one value, and its assignment to the variables *)

S ==
    [cfg |-> cfg, playwright |-> playwright, pw_starts |-> pw_starts,
     browsers |-> browsers, inst |-> inst, lock |-> lock,
     cleanup_task |-> cleanup_task, stats |-> stats, pc |-> pc, loc |-> loc,
     now |-> now]

\* the suspension points of get_page that come before the domain argument is
\* read for the last time (lines 161-166)
HintLive ==
    {"idle", "init_lock_wait", "pw_start", "init_create", "scale_lock_wait",
     "scale_create", "create_doomed", "sem_wait", "new_page", "new_page_doomed"}

\* the domain argument of a call that is past line 166, or has ended, is dead
Forget(s) ==
    [s EXCEPT !.loc = [t \in DOMAIN s.loc |->
                         IF s.pc[t] \in HintLive THEN s.loc[t]
                         ELSE [s.loc[t] EXCEPT !.hint = FALSE]]]

Set(s) ==
    \E m \in {s} : \E n \in {Forget(m)} :
        /\ cfg' = n.cfg
        /\ playwright' = n.playwright
        /\ pw_starts' = n.pw_starts
        /\ browsers' = n.browsers
        /\ inst' = n.inst
        /\ lock' = n.lock
        /\ cleanup_task' = n.cleanup_task
        /\ stats' = n.stats
        /\ pc' = n.pc
        /\ loc' = n.loc
        /\ now' = n.now

Range(q) == {q[k] : k \in 1..Len(q)}

Remove(q, x) == SelectSeq(q, LAMBDA y : y # x)

Goto(s, t, p) == [s EXCEPT !.pc[t] = p]

InitStats ==
    [total_requests |-> 0, active_tabs |-> 0, browsers_created |-> 0,
     browsers_closed |-> 0, failed_requests |-> 0, successful_requests |-> 0,
     peak_active_tabs |-> 0, peak_browsers |-> 0]

InitLoc ==
    [bi |-> NoInst, via |-> "none", todo |-> 0, hint |-> FALSE, exc |-> "none",
     waited |-> FALSE,
     kind |-> "none", target |-> 0, current |-> 0, rm |-> <<>>,
     ret |-> [action |-> "none", previous |-> 0, current |-> 0],
     made |-> 0, idx |-> 0, post_close |-> FALSE]

----------------------------------------------------------------------------
(* asyncio.Lock: acquire takes a free lock without suspending, otherwise    *)
(* the task queues; release hands the lock to the first waiter.  A waiter   *)
(* that owns the lock while its pc is still a *_lock_wait point has been    *)
(* woken and not yet run.                                                   *)

LockFree(s) == s.lock.owner = NoTask

LockTake(s, t) == [s EXCEPT !.lock.owner = t]

LockWait(s, t, p) == [Goto(s, t, p) EXCEPT !.lock.q = Append(@, t)]

LockRelease(s) ==
    IF s.lock.q = <<>>
    THEN [s EXCEPT !.lock.owner = NoTask]
    ELSE [s EXCEPT !.lock = [owner |-> Head(s.lock.q), q |-> Tail(s.lock.q)]]

\* a task cancelled while it waits for the lock: it leaves the queue, or, when
\* it was already woken, the lock goes on to the next waiter
LockAbandon(s, t) ==
    IF s.lock.owner = t THEN LockRelease(s)
    ELSE [s EXCEPT !.lock.q = Remove(@, t)]

----------------------------------------------------------------------------
(* asyncio.Semaphore of one instance: acquire takes a permit without        *)
(* suspending when one is free and nobody waits; release hands the permit   *)
(* to the first waiter, or adds it back.                                    *)

SemFree(s, i) == s.inst[i].sem > 0 /\ s.inst[i].semq = <<>>

\* (a variant that wakes no waiter, used to test C21)
SemRelease_no_wakeup(s, i) == [s EXCEPT !.inst[i].sem = @ + 1]

SemRelease(s, i) ==
    IF s.inst[i].semq = <<>>
    THEN [s EXCEPT !.inst[i].sem = @ + 1]
    ELSE [s EXCEPT !.inst[i].semq = Tail(@)]

\* a waiter that is no longer in the queue has been handed a permit
SemGranted(s, c) ==
    /\ s.pc[c] = "sem_wait"
    /\ c \notin Range(s.inst[s.loc[c].bi].semq)

----------------------------------------------------------------------------
(* _create_browser_instance.  Its two awaits (chromium.launch, line 86, and  *)
(* browser.new_context, line 99) touch no state of the manager, so a task   *)
(* inside it is at one suspension point; lines 106-124 run when            *)
(* new_context has returned.                                                *)

RECURSIVE SumTabs(_, _)
SumTabs(s, q) ==
    IF q = <<>> THEN 0 ELSE s.inst[Head(q)].active_tabs + SumTabs(s, Tail(q))

Max(a, b) == IF a > b THEN a ELSE b

\* (a variant with one permit too many, used to test C2)
NewInstance_extra_permit(s) ==
    [active_tabs |-> 0, total_requests |-> 0, last_used |-> s.now,
     created_at |-> s.now, sem |-> s.cfg.max_tabs_per_browser + 1,
     semq |-> <<>>, ctx |-> "open", closed_by |-> "none"]

NewInstance(s) ==
    [active_tabs |-> 0, total_requests |-> 0, last_used |-> s.now,
     created_at |-> s.now, sem |-> s.cfg.max_tabs_per_browser, semq |-> <<>>,
     ctx |-> "open", closed_by |-> "none"]

create_browser_instance(s) ==
    LET id == Len(s.inst) + 1
        bs == Append(s.browsers, id)
    IN  [s EXCEPT !.inst = Append(@, NewInstance(s)),
                  !.browsers = bs,
                  !.stats.browsers_created = @ + 1,
                  !.stats.peak_browsers = Max(@, Len(bs))]

\* line 86 is reached with the lock held: self.playwright.chromium raises
\* AttributeError when self.playwright is None, otherwise the task suspends
\* at point p until the engine answers
create_begin(s, t, p) ==
    IF s.playwright
    THEN Goto(s, t, p)
    ELSE Goto(LockRelease([s EXCEPT !.loc[t].exc = "no_driver"]), t, "done_err")

----------------------------------------------------------------------------
(* get_page: the release path (the finally block, lines 192-205) *)

Outcome(p) ==
    CASE p = "ok" -> "done_ok"
      [] p = "err" -> "done_err"
      [] p = "cancel" -> "done_cancel"

\* lines 200-205, run when page.close() has returned or there was no page
get_page_finally(s, c, outcome) ==
    LET i == s.loc[c].bi
        s1 == [s EXCEPT !.inst[i].active_tabs = @ - 1]
        s2 == SemRelease(s1, i)
        s3 == [s2 EXCEPT !.stats.active_tabs = SumTabs(s2, s2.browsers)]
    IN  IF i \in Range(s3.browsers)
        THEN Goto(s3, c, Outcome(outcome))
        ELSE \* self.browsers.index raises ValueError out of the finally block
             Goto([s3 EXCEPT !.loc[c].exc = "index"], c, "done_valerr")

\* lines 187-196: an Exception e raised in the try block while a page is open
get_page_except(s, c, e) ==
    Goto([s EXCEPT !.stats.failed_requests = @ + 1, !.loc[c].exc = e],
         c, "page_close_err")

\* lines 187-205 when context.new_page() raised: page is None
get_page_open_failed(s, c) ==
    get_page_finally([s EXCEPT !.stats.failed_requests = @ + 1,
                               !.loc[c].exc = "new_page"], c, "err")

----------------------------------------------------------------------------
(* get_page: lines 153-182 *)

\* lines 168-182: the bookkeeping before the yield
get_page_checkout(s, c) ==
    LET i == s.loc[c].bi
        s1 == [s EXCEPT !.inst[i].active_tabs = @ + 1,
                        !.inst[i].total_requests = @ + 1,
                        !.inst[i].last_used = s.now,
                        !.stats.total_requests = @ + 1]
        s2 == [s1 EXCEPT !.stats.active_tabs = SumTabs(s1, s1.browsers)]
        s3 == [s2 EXCEPT !.stats.peak_active_tabs = Max(@, s2.stats.active_tabs)]
    IN  IF i \in Range(s3.browsers)
        THEN Goto(s3, c, "body")
        ELSE get_page_except(s3, c, "index")    \* self.browsers.index raises

\* line 158: the caller holds a permit and calls context.new_page(); a call
\* made after the context's close was requested cannot succeed
get_page_admitted(s, c) ==
    IF s.inst[s.loc[c].bi].ctx = "open"
    THEN Goto(s, c, "new_page")
    ELSE Goto(s, c, "new_page_doomed")

\* line 153: await browser_instance.semaphore.acquire()
semaphore_acquire(s, c, i, via) ==
    LET s1 == [s EXCEPT !.loc[c].bi = i, !.loc[c].via = via]
    IN  IF SemFree(s1, i)
        THEN get_page_admitted([s1 EXCEPT !.inst[i].sem = @ - 1], c)
        ELSE Goto([s1 EXCEPT !.inst[i].semq = Append(@, c)], c, "sem_wait")

----------------------------------------------------------------------------
(* _get_available_browser, lines 126-140 *)

HasRoom(s, i) == s.inst[i].active_tabs < s.cfg.max_tabs_per_browser

\* (a variant that takes the last instance with a free slot, used to test C28)
FirstWithRoom_last(s) ==
    LET ks == {k \in 1..Len(s.browsers) : HasRoom(s, s.browsers[k])}
    IN  IF ks = {} THEN NoInst
        ELSE s.browsers[CHOOSE k \in ks : \A j \in ks : k >= j]

\* the first instance in pool order with a free slot (0 when there is none)
FirstWithRoom(s) ==
    LET ks == {k \in 1..Len(s.browsers) : HasRoom(s, s.browsers[k])}
    IN  IF ks = {} THEN NoInst
        ELSE s.browsers[CHOOSE k \in ks : \A j \in ks : k <= j]

\* min(self.browsers, key=active_tabs): the first of the least loaded
LeastLoaded(s) ==
    LET ks == {k \in 1..Len(s.browsers) :
                 \A j \in 1..Len(s.browsers) :
                    s.inst[s.browsers[k]].active_tabs
                        <= s.inst[s.browsers[j]].active_tabs}
    IN  s.browsers[CHOOSE k \in ks : \A j \in ks : k <= j]

MayAutoScale(s) ==
    s.cfg.auto_scale /\ Len(s.browsers) < s.cfg.max_browsers

\* (a variant that gives a call with a domain an instance of its own, used to
\* test C23)
get_available_browser_by_domain(s, c) ==
    IF s.loc[c].hint /\ MayAutoScale(s) /\ LockFree(s)
    THEN create_begin(LockTake(s, c), c, "scale_create")
    ELSE IF FirstWithRoom(s) # NoInst
    THEN semaphore_acquire(s, c, FirstWithRoom(s), "scan")
    ELSE IF s.browsers = <<>>
    THEN Goto([s EXCEPT !.loc[c].exc = "min"], c, "done_valerr")
    ELSE semaphore_acquire(s, c, LeastLoaded(s), "fallback")

get_available_browser(s, c) ==
    IF FirstWithRoom(s) # NoInst
    THEN semaphore_acquire(s, c, FirstWithRoom(s), "scan")
    ELSE IF MayAutoScale(s)
    THEN IF LockFree(s)
         THEN create_begin(LockTake(s, c), c, "scale_create")
         ELSE LockWait(s, c, "scale_lock_wait")
    ELSE IF s.browsers = <<>>
    THEN \* min() of an empty sequence raises ValueError
         Goto([s EXCEPT !.loc[c].exc = "min"], c, "done_valerr")
    ELSE semaphore_acquire(s, c, LeastLoaded(s), "fallback")

\* line 137 has returned: the lock is released and the caller goes on to
\* line 153 with the new instance
get_available_browser_created(s, c) ==
    LET s1 == create_browser_instance(s)
    IN  semaphore_acquire(LockRelease(s1), c, Len(s1.inst), "scale")

----------------------------------------------------------------------------
(* initialize, lines 69-82 *)

\* lines 79-82 and the exit of the async with block
initialize_tail(s, t) ==
    LET s1 == IF s.cleanup_task = "none"
              THEN Goto([s EXCEPT !.cleanup_task = "running"], ReaperId, "sleep")
              ELSE s
    IN  LockRelease(s1)

\* what the task does when initialize() has returned
AfterInitialize(s, t) ==
    IF t \in Callers THEN get_available_browser(s, t) ELSE Goto(s, t, "done_ok")

\* lines 76-77: the loop over range(min_browsers), k instances still to create
initialize_loop(s, t, k) ==
    IF k > 0
    THEN create_begin([s EXCEPT !.loc[t].todo = k], t, "init_create")
    ELSE AfterInitialize(initialize_tail(s, t), t)

\* (a variant without the test of line 72, used to test C8)
initialize_locked_unguarded(s, t) == Goto(s, t, "pw_start")

\* line 72, with the lock held
initialize_locked(s, t) ==
    IF ~s.playwright
    THEN Goto(s, t, "pw_start")
    ELSE AfterInitialize(LockRelease(s), t)

\* line 71
initialize(s, t) ==
    IF LockFree(s)
    THEN initialize_locked(LockTake(s, t), t)
    ELSE LockWait(s, t, "init_lock_wait")

\* line 74 has returned
initialize_started(s, t) ==
    initialize_loop([s EXCEPT !.playwright = TRUE, !.pw_starts = @ + 1],
                    t, s.cfg.min_browsers)

\* line 77 has returned
initialize_created(s, t) ==
    initialize_loop(create_browser_instance(s), t, s.loc[t].todo - 1)

\* (a variant in which a failed creation leaves an instance behind, used to
\* test C19)
RaiseUnderLock_after_append(s, t, p) ==
    Goto(LockRelease([create_browser_instance(s) EXCEPT !.loc[t].exc =
                         IF p = "done_cancel" THEN "cancelled" ELSE "engine"]),
         t, p)

\* an exception or a cancellation inside the async with block of initialize,
\* of _get_available_browser or of a scale endpoint: the lock is released and
\* the call ends
RaiseUnderLock(s, t, p) ==
    Goto(LockRelease([s EXCEPT !.loc[t].exc =
                         IF p = "done_cancel" THEN "cancelled" ELSE "engine"]),
         t, p)

----------------------------------------------------------------------------
(* Actions of a get_page caller *)

Hints == BOOLEAN

\* line 148: get_page(domain) is called (post_close records that close() had
\* returned before the call)
GetPage(c) ==
    /\ pc[c] = "idle"
    /\ \E d \in Hints :
          Set(initialize([S EXCEPT !.loc[c].hint = d,
                                   !.loc[c].post_close =
                                      (pc[CloserId] = "done_closed")], c))

\* the caller is woken with self.lock in initialize
InitLockGranted(t) ==
    /\ pc[t] = "init_lock_wait"
    /\ lock.owner = t
    /\ Set(initialize_locked(S, t))

PwStartOk(t) ==
    /\ pc[t] = "pw_start"
    /\ Set(initialize_started(S, t))

PwStartFails(t) ==
    /\ pc[t] = "pw_start"
    /\ Set(RaiseUnderLock(S, t, "done_err"))

InitCreateOk(t) ==
    /\ pc[t] = "init_create"
    /\ Set(initialize_created(S, t))

InitCreateFails(t) ==
    /\ pc[t] = "init_create"
    /\ Set(RaiseUnderLock(S, t, "done_err"))

\* the caller is woken with self.lock at line 136
ScaleLockGranted(c) ==
    /\ pc[c] = "scale_lock_wait"
    /\ lock.owner = c
    /\ Set(create_begin(S, c, "scale_create"))

ScaleCreateOk(c) ==
    /\ pc[c] = "scale_create"
    /\ Set(get_available_browser_created(S, c))

ScaleCreateFails(c) ==
    /\ pc[c] = "scale_create"
    /\ Set(RaiseUnderLock(S, c, "done_err"))

\* the caller is woken with a permit at line 153
SemaphoreGranted(c) ==
    /\ SemGranted(S, c)
    /\ Set(get_page_admitted(S, c))

\* line 158 returns a page
NewPageOk(c) ==
    /\ pc[c] = "new_page"
    /\ inst[loc[c].bi].ctx # "closed"
    /\ Set(IF loc[c].hint THEN Goto(S, c, "set_headers")
           ELSE get_page_checkout(S, c))

\* line 158 raises
NewPageFails(c) ==
    /\ pc[c] \in {"new_page", "new_page_doomed"}
    /\ Set(get_page_open_failed(S, c))

\* line 163 returns
SetHeadersOk(c) ==
    /\ pc[c] = "set_headers"
    /\ inst[loc[c].bi].ctx # "closed"
    /\ Set(get_page_checkout(S, c))

\* line 163 raises
SetHeadersFails(c) ==
    /\ pc[c] = "set_headers"
    /\ Set(get_page_except(S, c, "set_headers"))

\* the body of the async with block completes: lines 185, 192-196
BodyOk(c) ==
    /\ pc[c] = "body"
    /\ Set(Goto([S EXCEPT !.stats.successful_requests = @ + 1], c,
                "page_close_ok"))

\* the body raises an Exception: lines 187-196
BodyFails(c) ==
    /\ pc[c] = "body"
    /\ Set(get_page_except(S, c, "body"))

PageCloseStates == {"page_close_ok", "page_close_err", "page_close_cancel"}

PageCloseOutcome(p) ==
    CASE p = "page_close_ok" -> "ok"
      [] p = "page_close_err" -> "err"
      [] p = "page_close_cancel" -> "cancel"

\* line 196 returns, or raises an Exception that line 197 swallows
PageCloseDone(c) ==
    /\ pc[c] \in PageCloseStates
    /\ Set(get_page_finally(S, c, PageCloseOutcome(pc[c])))

\* (a variant in which the cancelled waiter's permit is lost, used to test C18)
semaphore_acquire_cancelled_leaks(s, c) ==
    Goto([s EXCEPT !.inst[s.loc[c].bi].semq = Remove(@, c),
                   !.inst[s.loc[c].bi].sem = IF @ > 0 THEN @ - 1 ELSE @],
         c, "done_cancel")

\* (a variant in which a cancelled waiter releases a permit it never held,
\* used to test C35)
semaphore_acquire_cancelled_releases(s, c) ==
    IF SemGranted(s, c)
    THEN Goto(SemRelease(s, s.loc[c].bi), c, "done_cancel")
    ELSE Goto(SemRelease([s EXCEPT !.inst[s.loc[c].bi].semq = Remove(@, c)],
                         s.loc[c].bi), c, "done_cancel")

\* line 153 raises CancelledError, outside the try block: a waiter leaves the
\* queue; one that had been handed a permit passes it on
semaphore_acquire_cancelled(s, c) ==
    IF SemGranted(s, c)
    THEN Goto(SemRelease(s, s.loc[c].bi), c, "done_cancel")
    ELSE Goto([s EXCEPT !.inst[s.loc[c].bi].semq = Remove(@, c)],
              c, "done_cancel")

\* The caller's task is cancelled at the suspension point it is at.
\* CancelledError is not an Exception: the except clauses pass it on.
cancel(s, c) ==
    CASE s.pc[c] \in {"init_lock_wait", "scale_lock_wait"} ->
            Goto(LockAbandon(s, c), c, "done_cancel")
      [] s.pc[c] \in {"pw_start", "init_create", "scale_create",
                      "create_doomed"} ->
            RaiseUnderLock(s, c, "done_cancel")
      [] s.pc[c] = "sem_wait" -> semaphore_acquire_cancelled(s, c)
      [] s.pc[c] \in {"new_page", "new_page_doomed"} ->
            get_page_finally(s, c, "cancel")
      [] s.pc[c] \in {"set_headers", "body"} ->
            Goto(s, c, "page_close_cancel")
      [] s.pc[c] \in PageCloseStates ->
            Goto(s, c, "done_leak")         \* lines 200-205 are skipped

Cancellable ==
    {"init_lock_wait", "scale_lock_wait", "pw_start", "init_create",
     "scale_create", "create_doomed", "sem_wait", "new_page", "new_page_doomed", "set_headers",
     "body"} \cup PageCloseStates

Cancel(c) ==
    /\ pc[c] \in Cancellable
    /\ Set(cancel(S, c))

\* startup_event (src/main.py line 36): initialize() is called on its own
\* (waited records that the call found the lock taken)
Initialize(t) ==
    /\ pc[t] = "idle"
    /\ LET s1 == initialize(S, t)
       IN  Set([s1 EXCEPT !.loc[t].waited = (s1.pc[t] = "init_lock_wait")])

CancelInitialize(t) ==
    /\ pc[t] \in {"init_lock_wait", "pw_start", "init_create"}
    /\ Set(cancel(S, t))

InitializerStep(t) ==
    \/ Initialize(t)
    \/ InitLockGranted(t)
    \/ PwStartOk(t)
    \/ PwStartFails(t)
    \/ InitCreateOk(t)
    \/ InitCreateFails(t)
    \/ CancelInitialize(t)

CallerStep(c) ==
    \/ GetPage(c)
    \/ InitLockGranted(c)
    \/ PwStartOk(c)
    \/ PwStartFails(c)
    \/ InitCreateOk(c)
    \/ InitCreateFails(c)
    \/ ScaleLockGranted(c)
    \/ ScaleCreateOk(c)
    \/ ScaleCreateFails(c)
    \/ SemaphoreGranted(c)
    \/ NewPageOk(c)
    \/ NewPageFails(c)
    \/ SetHeadersOk(c)
    \/ SetHeadersFails(c)
    \/ BodyOk(c)
    \/ BodyFails(c)
    \/ PageCloseDone(c)
    \/ Cancel(c)

----------------------------------------------------------------------------
(* _cleanup_idle_browsers, lines 207-240 *)

IdleFor(s, i) == s.now - s.inst[i].last_used

\* lines 217-224: len(self.browsers) does not change inside this loop
MarkIdle(s) ==
    IF Len(s.browsers) <= s.cfg.min_browsers THEN <<>>
    ELSE SelectSeq(s.browsers,
                   LAMBDA i : /\ IdleFor(s, i) > s.cfg.browser_idle_timeout
                              /\ s.inst[i].active_tabs = 0)

\* the context's close is requested: context.close() is called
RequestClose(s, i) ==
    [s EXCEPT !.inst[i].ctx = IF @ = "open" THEN "closing" ELSE @]

\* context.close() has returned
ContextClosed(s, i, who) ==
    [s EXCEPT !.inst[i].ctx = "closed", !.inst[i].closed_by = who]

\* lines 226-231: the next marked instance, or the end of the tick
cleanup_next(s) ==
    IF s.loc[ReaperId].rm = <<>>
    THEN Goto(LockRelease(s), ReaperId, "sleep")
    ELSE Goto(RequestClose(s, Head(s.loc[ReaperId].rm)), ReaperId,
              "reap_ctx_close")

\* (a variant that does not count the removal, used to test C15)
cleanup_remove_uncounted(s) ==
    cleanup_next([s EXCEPT !.browsers = Remove(@, Head(s.loc[ReaperId].rm)),
                           !.loc[ReaperId].rm = Tail(@)])

\* (a variant in which the tick ends at the first removal, used to test C32)
cleanup_remove_ends_tick(s) ==
    Goto(LockRelease([s EXCEPT !.loc[ReaperId].rm = <<>>]), ReaperId, "sleep")

\* lines 236-237
cleanup_remove(s) ==
    LET i == Head(s.loc[ReaperId].rm)
    IN  IF i \in Range(s.browsers)
        THEN cleanup_next([s EXCEPT !.browsers = Remove(@, i),
                                    !.stats.browsers_closed = @ + 1,
                                    !.loc[ReaperId].rm = Tail(@)])
        ELSE \* list.remove raises: line 239 catches it outside the lock
             Goto(LockRelease([s EXCEPT !.loc[ReaperId].rm = <<>>]),
                  ReaperId, "sleep")

\* lines 213-224, with the lock held
cleanup_locked(s) ==
    cleanup_next([s EXCEPT !.loc[ReaperId].rm = MarkIdle(s)])

\* line 211 returns: asyncio.sleep(60) is over
ReaperWakes ==
    /\ pc[ReaperId] = "sleep"
    /\ Set(IF LockFree(S) THEN cleanup_locked(LockTake(S, ReaperId))
           ELSE LockWait(S, ReaperId, "reap_lock_wait"))

ReaperLockGranted ==
    /\ pc[ReaperId] = "reap_lock_wait"
    /\ lock.owner = ReaperId
    /\ Set(cleanup_locked(S))

\* line 231 returns
ReapContextCloseOk ==
    /\ pc[ReaperId] = "reap_ctx_close"
    /\ Set(Goto(ContextClosed(S, Head(loc[ReaperId].rm), "reaper"), ReaperId,
                "reap_br_close"))

\* line 231 raises: line 233 catches it, line 232 is skipped
ReapContextCloseFails ==
    /\ pc[ReaperId] = "reap_ctx_close"
    /\ Set(cleanup_remove(S))

\* line 232 returns or raises
ReapBrowserCloseDone ==
    /\ pc[ReaperId] = "reap_br_close"
    /\ Set(cleanup_remove(S))

ReaperStep ==
    \/ ReaperWakes
    \/ ReaperLockGranted
    \/ ReapContextCloseOk
    \/ ReapContextCloseFails
    \/ ReapBrowserCloseDone

\* the event loop clock advances
TimePasses ==
    /\ now < MaxTime
    /\ Set([S EXCEPT !.now = @ + 1])

----------------------------------------------------------------------------
(* scale_browsers (src/main.py lines 81-128) and debug_force_scale         *)
(* (src/main.py lines 302-352)                                             *)

\* playwright_manager.browsers[target_browsers:]
SliceFrom(q, n) ==
    IF n >= Len(q) THEN <<>>
    ELSE IF n <= 0 THEN q
    ELSE SubSeq(q, n + 1, Len(q))

\* the dict the endpoint returns (main.py lines 100-104, 118-123, 125-128;
\* "from" and "to" in debug_force_scale), read when the lock has been released
Return(s, t, action) ==
    Goto([s EXCEPT !.loc[t].ret = [action |-> action,
                                   previous |-> s.loc[t].current,
                                   current |-> Len(s.browsers)]],
         t, "done_" \o action)

\* main.py lines 108-111
MarkScaleDown(s, target) ==
    SelectSeq(SliceFrom(s.browsers, target),
              LAMBDA i : s.inst[i].active_tabs = 0)

\* main.py lines 113-117 and 118-123
scale_down_next(s, t) ==
    IF s.loc[t].rm = <<>>
    THEN Return(LockRelease(s), t, "scaled_down")
    ELSE Goto(RequestClose(s, Head(s.loc[t].rm)), t, "down_ctx_close")

\* main.py lines 328-339
force_down_loop(s, t) ==
    LET n == Len(s.browsers)
    IN  IF /\ n > s.loc[t].target
           /\ n > s.cfg.min_browsers
           /\ s.inst[s.browsers[n]].active_tabs = 0
        THEN Goto(RequestClose([s EXCEPT !.loc[t].rm = <<s.browsers[n]>>],
                               s.browsers[n]), t, "down_ctx_close")
        ELSE Return(LockRelease([s EXCEPT !.loc[t].rm = <<>>]), t,
                    "scaled_down")

\* main.py line 107 / line 327, with the lock held
scale_down_locked(s, t) ==
    IF s.loc[t].kind = "scale_browsers"
    THEN scale_down_next([s EXCEPT !.loc[t].rm = MarkScaleDown(s, s.loc[t].target)], t)
    ELSE force_down_loop(s, t)

\* main.py line 116 / line 337
scale_down_remove(s, t) ==
    LET i == Head(s.loc[t].rm)
    IN  IF i \notin Range(s.browsers)
        THEN Goto(LockRelease([s EXCEPT !.loc[t].exc = "remove"]), t,
                  "done_valerr")
        ELSE LET s1 == [s EXCEPT !.browsers = Remove(@, i),
                                 !.loc[t].rm = Tail(@)]
             IN  IF s.loc[t].kind = "scale_browsers"
                 THEN scale_down_next(s1, t)
                 ELSE force_down_loop(s1, t)

\* (a variant that leaves the loop one round early, used to test C13)
scale_up_loop_one_less(s, t, k) ==
    IF k > 1
    THEN create_begin([s EXCEPT !.loc[t].todo = k], t, "up_create")
    ELSE Return(LockRelease(s), t, "scaled_up")

\* main.py lines 98-104 / 315-323: k instances still to create
scale_up_loop(s, t, k) ==
    IF k > 0
    THEN create_begin([s EXCEPT !.loc[t].todo = k], t, "up_create")
    ELSE Return(LockRelease(s), t, "scaled_up")

\* (a variant without the test of main.py line 84, used to test C12)
Rejected_no_minimum(s, kind, target) == target > s.cfg.max_browsers

\* main.py line 99 / 316 has returned (made counts the instances that this
\* request has created)
scale_up_created(s, t) ==
    scale_up_loop(create_browser_instance([s EXCEPT !.loc[t].made = @ + 1]),
                  t, s.loc[t].todo - 1)

\* main.py lines 84-91 / 307-308
Rejected(s, kind, target) ==
    \/ kind = "scale_browsers" /\ target < s.cfg.min_browsers
    \/ target > s.cfg.max_browsers

\* the endpoint up to its first suspension point
scale_to(s, t, kind, target) ==
    LET current == Len(s.browsers)
        s1 == [s EXCEPT !.loc[t].kind = kind, !.loc[t].target = target,
                        !.loc[t].current = current]
    IN  IF Rejected(s, kind, target)
        THEN Goto([s1 EXCEPT !.loc[t].ret.action = "error"], t, "done_rejected")
        ELSE IF target > current
        THEN IF LockFree(s1)
             THEN scale_up_loop(LockTake(s1, t), t, target - current)
             ELSE LockWait(s1, t, "up_lock_wait")
        ELSE IF target < current
        THEN IF LockFree(s1)
             THEN scale_down_locked(LockTake(s1, t), t)
             ELSE LockWait(s1, t, "down_lock_wait")
        ELSE Return(s1, t, "no_change")

ScaleKinds == {"scale_browsers", "debug_force_scale"}

Targets == 0..MaxTarget

\* the endpoints are served when startup_event (main.py lines 31-36) has
\* returned, that is when the driver has been started
ScaleTo(t) ==
    /\ pc[t] = "idle"
    /\ playwright
    /\ \E kind \in ScaleKinds, target \in Targets :
          Set(scale_to(S, t, kind, target))

UpLockGranted(t) ==
    /\ pc[t] = "up_lock_wait"
    /\ lock.owner = t
    /\ Set(scale_up_loop(S, t, loc[t].target - loc[t].current))

DownLockGranted(t) ==
    /\ pc[t] = "down_lock_wait"
    /\ lock.owner = t
    /\ Set(scale_down_locked(S, t))

UpCreateOk(t) ==
    /\ pc[t] = "up_create"
    /\ Set(scale_up_created(S, t))

UpCreateFails(t) ==
    /\ pc[t] = "up_create"
    /\ Set(RaiseUnderLock(S, t, "done_err"))

DownContextCloseOk(t) ==
    /\ pc[t] = "down_ctx_close"
    /\ Set(Goto(ContextClosed(S, Head(loc[t].rm), "scale"), t, "down_br_close"))

DownContextCloseFails(t) ==
    /\ pc[t] = "down_ctx_close"
    /\ Set(RaiseUnderLock(S, t, "done_err"))

DownBrowserCloseOk(t) ==
    /\ pc[t] = "down_br_close"
    /\ Set(scale_down_remove(S, t))

DownBrowserCloseFails(t) ==
    /\ pc[t] = "down_br_close"
    /\ Set(RaiseUnderLock(S, t, "done_err"))

ScalerStep(t) ==
    \/ ScaleTo(t)
    \/ UpLockGranted(t)
    \/ DownLockGranted(t)
    \/ UpCreateOk(t)
    \/ UpCreateFails(t)
    \/ DownContextCloseOk(t)
    \/ DownContextCloseFails(t)
    \/ DownBrowserCloseOk(t)
    \/ DownBrowserCloseFails(t)

----------------------------------------------------------------------------
(* close, lines 242-266.  close() does not take self.lock.                  *)

\* line 247: cleanup_task.cancel().  The reaper gets CancelledError at the
\* await it is suspended at, the next time the event loop runs it; nothing
\* else is delivered to it any more.
cancel_reaper(s) ==
    Goto(s, ReaperId,
         CASE s.pc[ReaperId] = "sleep" -> "cancel_sleep"
           [] s.pc[ReaperId] = "reap_lock_wait" -> "cancel_lock_wait"
           [] s.pc[ReaperId] \in {"reap_ctx_close", "reap_br_close"} ->
                 "cancel_closing")

\* CancelledError passes the except clauses of lines 233 and 239 and leaves
\* the async with block: the reaper task ends
reaper_cancelled(s) ==
    LET s1 == CASE s.pc[ReaperId] = "cancel_sleep" -> s
                [] s.pc[ReaperId] = "cancel_lock_wait" -> LockAbandon(s, ReaperId)
                [] s.pc[ReaperId] = "cancel_closing" -> LockRelease(s)
    IN  Goto([s1 EXCEPT !.cleanup_task = "cancelled"], ReaperId, "ended")

\* lines 260-266: the loop is over
close_clear(s, t) ==
    LET s1 == [s EXCEPT !.browsers = <<>>]
    IN  IF s1.playwright
        THEN Goto(s1, t, "close_pw_stop")
        ELSE Goto(s1, t, "done_closed")

\* line 253: the list iterator of the for loop reads the list as it is now;
\* idx is the number of positions it has passed
close_loop(s, t) ==
    LET k == s.loc[t].idx
    IN  IF k < Len(s.browsers)
        THEN Goto(RequestClose([s EXCEPT !.loc[t].idx = k + 1,
                                         !.loc[t].bi = s.browsers[k + 1]],
                               s.browsers[k + 1]),
                  t, "close_ctx")
        ELSE close_clear(s, t)

\* lines 246-251: awaiting a task that has ended raises CancelledError at
\* once, without suspending
close(s, t) ==
    IF s.cleanup_task = "running"
    THEN Goto(cancel_reaper(s), t, "close_reaper_wait")
    ELSE close_loop(s, t)

\* the driver has stopped: every browser it had launched is gone, and no
\* launch or new_context call that is still pending on it can succeed
driver_stopped(s) ==
    [s EXCEPT
        !.inst = [i \in 1..Len(s.inst) |->
                    IF s.inst[i].ctx = "closed" THEN s.inst[i]
                    ELSE [s.inst[i] EXCEPT !.ctx = "closed",
                                           !.closed_by = "stop"]],
        !.pc = [u \in Tasks |->
                  IF s.pc[u] \in {"init_create", "scale_create", "up_create"}
                  THEN "create_doomed" ELSE s.pc[u]]]

\* lines 263-264: playwright.stop() has returned
close_stopped(s, t) ==
    Goto([driver_stopped(s) EXCEPT !.playwright = FALSE], t, "done_closed")

\* shutdown_event (src/main.py line 48): close() is called
Close(t) ==
    /\ pc[t] = "idle"
    /\ Set(close(S, t))

\* the reaper task runs and ends with CancelledError
ReaperCancelled ==
    /\ pc[ReaperId] \in {"cancel_sleep", "cancel_lock_wait", "cancel_closing"}
    /\ Set(reaper_cancelled(S))

\* line 249 raises CancelledError: the reaper task has ended
CloseReaperEnded(t) ==
    /\ pc[t] = "close_reaper_wait"
    /\ cleanup_task = "cancelled"
    /\ Set(close_loop(S, t))

\* line 255 returns
CloseContextOk(t) ==
    /\ pc[t] = "close_ctx"
    /\ Set(Goto(ContextClosed(S, loc[t].bi, "close"), t, "close_br"))

\* line 255 raises: line 257 catches it, line 256 is skipped
CloseContextFails(t) ==
    /\ pc[t] = "close_ctx"
    /\ Set(close_loop(S, t))

\* line 256 returns, or raises an Exception that line 257 catches
CloseBrowserDone(t) ==
    /\ pc[t] = "close_br"
    /\ Set(close_loop(S, t))

CloseStopOk(t) ==
    /\ pc[t] = "close_pw_stop"
    /\ Set(close_stopped(S, t))

\* line 263 raises: close() raises and self.playwright is left as it is
CloseStopFails(t) ==
    /\ pc[t] = "close_pw_stop"
    /\ Set(Goto([S EXCEPT !.loc[t].exc = "engine"], t, "done_err"))

\* a launch or new_context call that was pending when the driver stopped
\* raises
CreateDoomedFails(t) ==
    /\ pc[t] = "create_doomed"
    /\ Set(RaiseUnderLock(S, t, "done_err"))

CloserStep(t) ==
    \/ Close(t)
    \/ ReaperCancelled
    \/ CloseReaperEnded(t)
    \/ CloseContextOk(t)
    \/ CloseContextFails(t)
    \/ CloseBrowserDone(t)
    \/ CloseStopOk(t)
    \/ CloseStopFails(t)
    \/ \E u \in Tasks : CreateDoomedFails(u)

----------------------------------------------------------------------------
(* get_stats, lines 268-291 (the fields that are numbers; percentages are   *)
(* kept in hundredths of a percent, as round(x, 2) keeps two decimals)      *)

\* round(n / d) to the nearest integer, ties to even, as Python's round
RoundHalfEven(n, d) ==
    LET q == n \div d
        r == n % d
    IN  IF 2 * r < d THEN q
        ELSE IF 2 * r > d THEN q + 1
        ELSE IF q % 2 = 0 THEN q ELSE q + 1

\* (a variant that reports the cached counter, used to test C11)
get_stats_cached(s) == [active_tabs |-> s.stats.active_tabs]

get_stats(s) ==
    LET current_active_tabs == SumTabs(s, s.browsers)
        capacity == Len(s.browsers) * s.cfg.max_tabs_per_browser
    IN  [total_requests |-> s.stats.total_requests,
         successful_requests |-> s.stats.successful_requests,
         failed_requests |-> s.stats.failed_requests,
         browsers_created |-> s.stats.browsers_created,
         browsers_closed |-> s.stats.browsers_closed,
         peak_active_tabs |-> s.stats.peak_active_tabs,
         peak_browsers |-> s.stats.peak_browsers,
         active_browsers |-> Len(s.browsers),
         active_tabs |-> current_active_tabs,
         total_capacity |-> capacity,
         capacity_used_percent |->
            IF s.browsers # <<>> /\ capacity # 0
            THEN RoundHalfEven(current_active_tabs * 10000, capacity) ELSE 0,
         success_rate |->
            IF s.stats.total_requests > 0
            THEN RoundHalfEven(s.stats.successful_requests * 10000,
                               s.stats.total_requests)
            ELSE 0]

----------------------------------------------------------------------------
(* debug_reset_stats (src/main.py lines 355-379): no await is made, the     *)
(* handler runs in one step                                                 *)

\* (a variant that also clears the instances' active_tabs, used to test C27)
debug_reset_stats_clears_active_tabs(s, t) ==
    Goto([s EXCEPT
            !.stats = [InitStats EXCEPT
                          !.browsers_created = Len(s.browsers),
                          !.peak_browsers = Len(s.browsers)],
            !.inst = [i \in 1..Len(s.inst) |->
                        IF i \in Range(s.browsers)
                        THEN [s.inst[i] EXCEPT !.total_requests = 0,
                                               !.active_tabs = 0]
                        ELSE s.inst[i]]],
         t, "done_reset")

debug_reset_stats(s, t) ==
    Goto([s EXCEPT
            !.stats = [total_requests |-> 0, active_tabs |-> 0,
                       browsers_created |-> Len(s.browsers),
                       browsers_closed |-> 0, failed_requests |-> 0,
                       successful_requests |-> 0, peak_active_tabs |-> 0,
                       peak_browsers |-> Len(s.browsers)],
            !.inst = [i \in 1..Len(s.inst) |->
                        IF i \in Range(s.browsers)
                        THEN [s.inst[i] EXCEPT !.total_requests = 0]
                        ELSE s.inst[i]]],
         t, "done_reset")

\* GET /debug/reset-stats is served
ResetStats(t) ==
    /\ pc[t] = "idle"
    /\ Set(debug_reset_stats(S, t))

----------------------------------------------------------------------------
(* Specifications *)

Config(tabs, maxb, minb, auto) ==
    [max_tabs_per_browser |-> tabs, max_browsers |-> maxb,
     min_browsers |-> minb, auto_scale |-> auto, browser_idle_timeout |-> 1]

InitWith(configs) ==
    /\ cfg \in configs
    /\ playwright = FALSE
    /\ pw_starts = 0
    /\ browsers = <<>>
    /\ inst = <<>>
    /\ lock = [owner |-> NoTask, q |-> <<>>]
    /\ cleanup_task = "none"
    /\ stats = InitStats
    /\ pc = [t \in Tasks |-> IF t = ReaperId THEN "off" ELSE "idle"]
    /\ loc = [t \in Tasks |-> InitLoc]
    /\ now = 0

\* three callers; two tabs per instance with and without auto_scale, and one
\* tab per instance with auto_scale
Init ==
    InitWith({Config(2, 3, 1, a) : a \in BOOLEAN} \cup {Config(1, 2, 1, TRUE)})

Next == \E c \in Callers : CallerStep(c)

Spec == Init /\ [][Next]_vars

\* two callers and the startup initialize() call, on instances of one tab
\* each, with and without auto_scale
InitAdmit == InitWith({Config(1, 2, 1, a) : a \in BOOLEAN})

NextAdmit ==
    \/ \E c \in 1..(NumCallers - 1) : CallerStep(c)
    \/ InitializerStep(ReaperId + 1)

SpecAdmit == InitAdmit /\ [][NextAdmit]_vars

\* two callers, the idle reaper and the clock
InitReaper == InitWith({Config(1, 3, 1, TRUE)})

NextReaper ==
    \/ \E c \in 1..(NumCallers - 1) : CallerStep(c)
    \/ ReaperStep
    \/ TimePasses

SpecReaper == InitReaper /\ [][NextReaper]_vars

\* two callers and the scale endpoints, with and without auto_scale
InitScale == InitWith({Config(1, 3, 1, a) : a \in BOOLEAN})

NextScale ==
    \/ \E c \in 1..(NumCallers - 1) : CallerStep(c)
    \/ \E t \in Scalers : ScalerStep(t)

SpecScale == InitScale /\ [][NextScale]_vars

\* concurrent initialize() calls on a fresh manager
InitInit == InitWith({Config(2, 3, m, TRUE) : m \in 0..2})

NextInit == \E t \in Inits : InitializerStep(t)

SpecInit == InitInit /\ [][NextInit]_vars

\* two callers, the idle reaper, the clock and one close() call
InitClose == InitWith({Config(1, 2, 1, TRUE)})

NextClose ==
    \/ \E c \in 1..(NumCallers - 1) : CallerStep(c)
    \/ ReaperStep
    \/ TimePasses
    \/ CloserStep(CloserId)

SpecClose == InitClose /\ [][NextClose]_vars

\* what the event loop runs of a get_page or initialize call once it is made:
\* every step but the call itself and a cancellation from outside
CallerRuns(c) ==
    \/ InitLockGranted(c)
    \/ PwStartOk(c)
    \/ PwStartFails(c)
    \/ InitCreateOk(c)
    \/ InitCreateFails(c)
    \/ ScaleLockGranted(c)
    \/ ScaleCreateOk(c)
    \/ ScaleCreateFails(c)
    \/ SemaphoreGranted(c)
    \/ NewPageOk(c)
    \/ NewPageFails(c)
    \/ SetHeadersOk(c)
    \/ SetHeadersFails(c)
    \/ BodyOk(c)
    \/ BodyFails(c)
    \/ PageCloseDone(c)

\* two callers and the startup initialize() call on a pool of at most one
\* instance of one tab, with and without auto_scale; the event loop runs every
\* task that can run, and bodies and engine calls return
InitLive == InitWith({Config(1, 1, 1, a) : a \in BOOLEAN})

NextLive ==
    \/ \E c \in 1..(NumCallers - 1) : CallerStep(c)
    \/ InitializerStep(ReaperId + 1)

SpecLive ==
    /\ InitLive
    /\ [][NextLive]_vars
    /\ \A t \in 1..(NumCallers - 1) \cup {ReaperId + 1} : WF_vars(CallerRuns(t))

\* __init__, lines 22-51: the arguments are stored as they are given and
\* nothing is raised
AdvancedPlaywrightManager(tabs, maxb, auto, minb) ==
    Config(tabs, maxb, minb, auto)

\* two callers and the startup initialize() call on a manager constructed with
\* any arguments, negative, zero and inconsistent ones included
InitAnyArgs ==
    InitWith({AdvancedPlaywrightManager(tabs, maxb, auto, minb) :
                 tabs \in 0..MaxTabsArg, maxb \in 0..MaxArg,
                 auto \in BOOLEAN, minb \in (-1)..MaxArg})

SpecAnyArgs == InitAnyArgs /\ [][NextAdmit]_vars

\* two callers, the startup initialize() call and one reset of the statistics
NextReset ==
    \/ NextAdmit
    \/ \E t \in Scalers : ResetStats(t)

SpecReset == InitAdmit /\ [][NextReset]_vars

----------------------------------------------------------------------------
(* Properties *)

InstIds == 1..Len(inst)

DonePcs == {"done_ok", "done_err", "done_cancel", "done_valerr", "done_leak"}

\* the suspension points at which a caller holds a permit of its instance
AdmittedPcs ==
    {"new_page", "new_page_doomed", "set_headers", "body"} \cup PageCloseStates

\* the callers that were admitted by instance i's semaphore and have not
\* returned the permit (a caller cancelled inside page.close() never does)
Holders(i) ==
    {c \in Callers :
        /\ loc[c].bi = i
        /\ \/ pc[c] \in AdmittedPcs
           \/ pc[c] = "done_leak"
           \/ SemGranted(S, c)}

\* C1: for every instance, in every reachable state,
\* 0 <= active_tabs <= max_tabs_per_browser
C1_ActiveTabsInBounds ==
    \A i \in InstIds :
        /\ inst[i].active_tabs >= 0
        /\ inst[i].active_tabs <= cfg.max_tabs_per_browser

\* C2: the number of callers that hold a permit of one instance never exceeds
\* max_tabs_per_browser, also when the least-loaded fallback sends a caller to
\* an instance that is full
C2_HoldersWithinCapacity ==
    \A i \in InstIds : Cardinality(Holders(i)) <= cfg.max_tabs_per_browser

\* a caller sent to a full instance by the fallback is blocked on its semaphore
C2_Witness ==
    \E c \in Callers :
        /\ pc[c] = "sem_wait"
        /\ loc[c].via = "fallback"
        /\ ~SemGranted(S, c)
        /\ Cardinality(Holders(loc[c].bi)) = cfg.max_tabs_per_browser

\* C3: whenever no pool operation is in progress under the lock, the pool
\* holds at most max_browsers instances
C3_PoolAtMostMax ==
    LockFree(S) => Len(browsers) <= cfg.max_browsers

\* C4: when every caller that was admitted has left get_page (by completing
\* the body, by an error in the body or by cancellation), every permit is
\* back and active_tabs is what it was before the checkouts
C4_ReleaseRestores ==
    (\A c \in Callers :
        /\ pc[c] \in DonePcs \cup {"idle"}
        /\ loc[c].exc \notin {"new_page", "set_headers"})
    => \A i \in InstIds :
          /\ inst[i].sem = cfg.max_tabs_per_browser
          /\ inst[i].active_tabs = 0

\* C5: no removal by the reaper leaves the pool with fewer than min_browsers
\* instances
C5_ReaperKeepsMinimum ==
    [][Len(browsers') < Len(browsers) => Len(browsers') >= cfg.min_browsers]_vars

\* the instance the reaper is closing
ReaperClosing(i) ==
    /\ pc[ReaperId] \in {"reap_ctx_close", "reap_br_close"}
    /\ loc[ReaperId].rm # <<>>
    /\ Head(loc[ReaperId].rm) = i

\* C6: whenever the reaper requests the close of an instance, completes a
\* close call on it or removes it, the instance has no active tab
C6_ReaperNeverClosesBusy ==
    [][\A i \in InstIds :
          (\/ ReaperClosing(i) /\ <<pc[ReaperId], loc[ReaperId].rm>>'
                                    # <<pc[ReaperId], loc[ReaperId].rm>>
           \/ ~ReaperClosing(i) /\ ReaperClosing(i)')
          => ~(inst[i].active_tabs > 0)]_vars

\* the instance scale request t is closing
ScalerClosing(t, i) ==
    /\ pc[t] \in {"down_ctx_close", "down_br_close"}
    /\ loc[t].rm # <<>>
    /\ Head(loc[t].rm) = i

\* C7: whenever a scale-down requests the close of an instance, completes a
\* close call on it or removes it, the instance has no active tab
C7_ScaleDownNeverClosesBusy ==
    [][\A t \in Scalers : \A i \in InstIds :
          (\/ ScalerClosing(t, i) /\ <<pc[t], loc[t].rm>>' # <<pc[t], loc[t].rm>>
           \/ ~ScalerClosing(t, i) /\ ScalerClosing(t, i)')
          => ~(inst[i].active_tabs > 0)]_vars

\* C8: concurrent initialize() calls start the driver at most once and never
\* create more than min_browsers instances; when all of them have returned
\* the pool holds exactly min_browsers instances and the driver was started
\* once
C8_ConcurrentInitialize ==
    /\ pw_starts <= 1
    /\ Len(browsers) <= cfg.min_browsers
    /\ (\A t \in Inits : pc[t] = "done_ok")
          => Len(browsers) = cfg.min_browsers /\ pw_starts = 1

\* all initialize() calls have returned, and one of them had to wait for the
\* lock while another held it
C8_Witness ==
    /\ \A t \in Inits : pc[t] = "done_ok"
    /\ \E t \in Inits : loc[t].waited
    /\ cfg.min_browsers >= 1
    /\ Len(browsers) = cfg.min_browsers

\* C9: with max_tabs_per_browser = 2, max_browsers = 3, min_browsers = 1 and
\* auto_scale on, when three get_page calls are in flight together and each
\* has selected its instance, the pool holds exactly 2 instances: two callers
\* are on the first and one is on the second
C9_ThreeCallersTwoInstances ==
    (/\ cfg = Config(2, 3, 1, TRUE)
     /\ NumCallers = 3
     /\ \A c \in Callers :
           pc[c] \in {"sem_wait", "new_page", "set_headers", "body"})
    => /\ Len(browsers) = 2
       /\ Cardinality({c \in Callers : loc[c].bi = browsers[1]}) = 2
       /\ Cardinality({c \in Callers : loc[c].bi = browsers[2]}) = 1

\* the calls that completed normally, and those that ended with an error
\* raised after the caller was admitted
CompletedOk == {c \in Callers : pc[c] = "done_ok"}
EndedWithError == {c \in Callers : pc[c] \in {"done_err", "done_valerr"}}

\* C10: when every call made so far has completed normally (N calls) or has
\* ended with an error of its session (M calls), total_requests = N + M,
\* successful_requests = N, failed_requests = M and get_stats reports
\* success_rate = N / (N + M) * 100
C10_CountersMatchOutcomes ==
    LET N == Cardinality(CompletedOk)
        M == Cardinality(EndedWithError)
    IN  (\A c \in Callers :
            /\ pc[c] \in {"idle", "done_ok", "done_err", "done_valerr"}
            /\ loc[c].exc \notin {"engine", "min", "no_driver"})
        => /\ stats.total_requests = N + M
           /\ stats.successful_requests = N
           /\ stats.failed_requests = M
           /\ get_stats(S).success_rate =
                 (IF N + M > 0 THEN RoundHalfEven(N * 10000, N + M) ELSE 0)

\* the active tabs of the instances at pool positions 1..n
RECURSIVE TabsInPool(_)
TabsInPool(n) ==
    IF n = 0 THEN 0 ELSE inst[browsers[n]].active_tabs + TabsInPool(n - 1)

\* C11: in every state, the active_tabs value that get_stats returns is the
\* sum of active_tabs over the instances that are in the pool, whatever the
\* cached counter stats.active_tabs holds
C11_StatsActiveTabsIsPoolSum ==
    get_stats(S).active_tabs = TabsInPool(Len(browsers))

\* the cached counter differs from the sum over the pool, and the pool holds
\* an instance with an active tab
C11_Witness ==
    /\ stats.active_tabs # TabsInPool(Len(browsers))
    /\ \E k \in 1..Len(browsers) : inst[browsers[k]].active_tabs > 0

\* scale request t is called in this step, through endpoint kind
ScaleCalled(t, kind) ==
    /\ pc[t] = "idle"
    /\ pc'[t] # "idle"
    /\ loc'[t].kind = kind

\* C12: a call of scale_browsers with a target below min_browsers or above
\* max_browsers returns an error and leaves the pool, every instance, the
\* stats, the driver and the lock as they were
C12_OutOfRangeRejected ==
    [][\A t \in Scalers :
          (/\ ScaleCalled(t, "scale_browsers")
           /\ \/ loc'[t].target < cfg.min_browsers
              \/ loc'[t].target > cfg.max_browsers)
          => /\ loc'[t].ret.action = "error"
             /\ pc'[t] = "done_rejected"
             /\ UNCHANGED <<browsers, inst, stats, playwright, pw_starts, lock,
                            cleanup_task>>]_vars

\* a target below the minimum was rejected while the pool held an instance
\* with an active tab
C12_Witness ==
    \E t \in Scalers :
        /\ pc[t] = "done_rejected"
        /\ loc[t].kind = "scale_browsers"
        /\ loc[t].target < cfg.min_browsers
        /\ \E k \in 1..Len(browsers) : inst[browsers[k]].active_tabs > 0

\* C13: a call of scale_browsers with min_browsers <= target <= max_browsers
\* and target above the pool size goes on to create instances, with auto_scale
\* on or off; when it returns it has created exactly target - current
\* instances, where current is the pool size at the call, and it returns
\* action scaled_up with previous = current and the pool size at the return
C13_ScaleUpCreatesDifference ==
    [][\A t \in Scalers :
          /\ (/\ ScaleCalled(t, "scale_browsers")
              /\ loc'[t].target >= cfg.min_browsers
              /\ loc'[t].target <= cfg.max_browsers
              /\ loc'[t].target > Len(browsers))
             => /\ pc'[t] \in {"up_lock_wait", "up_create"}
                /\ loc'[t].current = Len(browsers)
          /\ (/\ pc[t] # "done_scaled_up"
              /\ pc'[t] = "done_scaled_up"
              /\ loc'[t].kind = "scale_browsers")
             => /\ loc'[t].made = loc'[t].target - loc'[t].current
                /\ Len(inst') - Len(inst) = 1
                /\ loc'[t].ret = [action |-> "scaled_up",
                                  previous |-> loc'[t].current,
                                  current |-> Len(browsers')]]_vars

\* with auto_scale off, a scale_browsers call has returned scaled_up after
\* creating two instances
C13_Witness ==
    \E t \in Scalers :
        /\ pc[t] = "done_scaled_up"
        /\ loc[t].kind = "scale_browsers"
        /\ ~cfg.auto_scale
        /\ loc[t].made = 2
        /\ loc[t].ret.current = loc[t].ret.previous + 2

\* the instances of the pool that have no active tab
IdleInPool == {k \in 1..Len(browsers) : inst[browsers[k]].active_tabs = 0}

Min(a, b) == IF a < b THEN a ELSE b

\* C14: when a call of scale_browsers with a target below the pool size picks
\* the instances it will close (the call found the lock free, so the pool is
\* the one it was called on, and every caller that holds a permit has its tab
\* counted), it picks min(current - target, number of instances with no
\* active tab) instances
C14_ScaleDownClosesIdleCount ==
    [][\A t \in Scalers :
          (/\ ScaleCalled(t, "scale_browsers")
           /\ pc'[t] \in {"down_ctx_close", "done_scaled_down"}
           /\ \A c \in Callers : pc[c] \in DonePcs \cup {"idle", "body"})
          => Len(loc'[t].rm) =
                Min(Len(browsers) - loc'[t].target, Cardinality(IdleInPool))]_vars

\* instance i is in the pool, the pool holds more than min_browsers instances,
\* i has no active tab and was last used more than browser_idle_timeout ago
ExpiredIdle(i) ==
    /\ i \in Range(browsers)
    /\ Len(browsers) > cfg.min_browsers
    /\ inst[i].active_tabs = 0
    /\ IdleFor(S, i) > cfg.browser_idle_timeout

\* the reaper has the lock and picks the instances of this tick
ReaperMarks ==
    \/ pc[ReaperId] = "sleep" /\ pc'[ReaperId] = "reap_ctx_close"
    \/ pc[ReaperId] = "reap_lock_wait" /\ pc'[ReaperId] # "reap_lock_wait"

\* the reaper is through with the instance at the head of its list
ReaperFinishesOne ==
    /\ pc[ReaperId] \in {"reap_ctx_close", "reap_br_close"}
    /\ loc'[ReaperId].rm # loc[ReaperId].rm

\* C15: a reaper tick picks every instance that is in a pool of more than
\* min_browsers instances, has no active tab and has been idle for longer
\* than browser_idle_timeout; the tick then takes the picked instances one by
\* one, removes each from the pool and adds one to browsers_closed for it,
\* and ends only when none is left
C15_ReaperTickRemovesExpired ==
    [][/\ ReaperMarks
          => \A i \in InstIds : ExpiredIdle(i) => i \in Range(loc'[ReaperId].rm)
       /\ ReaperFinishesOne
          => /\ Head(loc[ReaperId].rm) \in Range(browsers)
             /\ browsers' = Remove(browsers, Head(loc[ReaperId].rm))
             /\ loc'[ReaperId].rm = Tail(loc[ReaperId].rm)
             /\ stats'.browsers_closed = stats.browsers_closed + 1
       /\ (pc[ReaperId] \in {"reap_ctx_close", "reap_br_close"}
            /\ pc'[ReaperId] = "sleep")
          => loc'[ReaperId].rm = <<>>]_vars

\* a tick is over in which the reaper closed and removed an instance, and
\* browsers_closed counts every instance that has left the pool
C15_Witness ==
    /\ pc[ReaperId] = "sleep"
    /\ \E i \in InstIds : inst[i].closed_by = "reaper" /\ i \notin Range(browsers)
    /\ stats.browsers_closed = Len(inst) - Len(browsers)
    /\ stats.browsers_closed >= 1

\* close() returns in this step
CloseReturns ==
    /\ pc[CloserId] # "done_closed"
    /\ pc'[CloserId] = "done_closed"

\* C16: at the moment close() returns, the reaper task has ended (or was
\* never started), every instance ever created is closed, the pool is empty
\* and self.playwright is None, whatever the get_page callers were doing while
\* close() ran
C16_CloseLeavesNothing ==
    [][CloseReturns
          => /\ pc'[ReaperId] \in {"off", "ended"}
             /\ \A i \in 1..Len(inst') : inst'[i].ctx = "closed"
             /\ browsers' = <<>>
             /\ ~playwright']_vars

\* C17: a get_page call made after close() has returned is never given an
\* instance whose browser is closed, and when it holds its page the driver is
\* started and the pool holds at least min_browsers instances, all of them
\* open
C17_AcquireAfterCloseReinitializes ==
    \A c \in Callers :
        loc[c].post_close
        => /\ pc[c] # "new_page_doomed"
           /\ pc[c] = "body"
              => /\ playwright
                 /\ Len(browsers) >= cfg.min_browsers
                 /\ \A k \in 1..Len(browsers) : inst[browsers[k]].ctx = "open"

\* C18: when a caller is cancelled while it waits at the semaphore of instance
\* i, the stats and the counters of every instance stay as they are, the
\* caller leaves the queue, the other waiters keep their order, and the
\* permits of i that are free or held add up to the same number as before
C18_CancelledWaiterTakesNothing ==
    [][\A c \in Callers :
          (pc[c] = "sem_wait" /\ pc'[c] = "done_cancel")
          => LET i == loc[c].bi
             IN  /\ stats' = stats
                 /\ browsers' = browsers
                 /\ \A j \in InstIds :
                       /\ inst'[j].active_tabs = inst[j].active_tabs
                       /\ inst'[j].total_requests = inst[j].total_requests
                       /\ inst'[j].last_used = inst[j].last_used
                       /\ j # i => inst'[j] = inst[j]
                 /\ c \notin Range(inst'[i].semq)
                 /\ c \notin Holders(i)'
                 /\ inst'[i].sem + Cardinality(Holders(i)')
                       = inst[i].sem + Cardinality(Holders(i))
                 /\ \/ inst'[i].semq = Remove(inst[i].semq, c)
                    \/ SemGranted(S, c) /\ inst'[i].semq = Tail(inst[i].semq)]_vars

\* a caller that the fallback sent to a full instance was cancelled while it
\* waited: the permit is still with the caller that is in its body
C18_Witness ==
    \E c, d \in Callers :
        /\ pc[c] = "done_cancel"
        /\ loc[c].via = "fallback"
        /\ pc[d] = "body"
        /\ loc[d].bi = loc[c].bi
        /\ inst[loc[c].bi].sem = 0
        /\ inst[loc[c].bi].semq = <<>>
        /\ inst[loc[c].bi].active_tabs = 1
        /\ cfg.max_tabs_per_browser = 1

\* the suspension points inside _create_browser_instance
CreatePcs == {"init_create", "scale_create", "up_create"}

\* C19: when the launch or the new_context call of _create_browser_instance
\* raises, in initialize, in the autoscale branch of get_page or in a scale
\* request, the pool, the instances and the stats (browsers_created and
\* peak_browsers among them) stay as they are, the lock is released and the
\* call that asked for the instance ends with that error
C19_FailedCreateAppendsNothing ==
    [][\A t \in Tasks :
          (pc[t] \in CreatePcs /\ loc'[t].exc = "engine")
          => /\ browsers' = browsers
             /\ inst' = inst
             /\ stats' = stats
             /\ lock'.owner # t
             /\ pc'[t] = "done_err"]_vars

\* a scale request that had created one instance failed on the second one,
\* and a get_page call failed on the instance its initialize() was creating
C19_Witness ==
    /\ \E t \in Scalers :
          /\ pc[t] = "done_err"
          /\ loc[t].exc = "engine"
          /\ loc[t].made = 1
          /\ loc[t].todo = 1
    /\ \E c \in Callers :
          /\ pc[c] = "done_err"
          /\ loc[c].exc = "engine"
          /\ loc[c].todo = 1
          /\ stats.browsers_created = Len(inst)

\* initialize() call t has the lock and runs the test of line 72 in this step
InitializeDecides(t) ==
    \/ pc[t] = "idle" /\ pc'[t] \notin {"idle", "init_lock_wait"}
    \/ /\ pc[t] = "init_lock_wait"
       /\ pc'[t] \notin {"init_lock_wait", "done_cancel"}

\* C20: an initialize() call that finds the pool empty goes on to create
\* instances (when min_browsers > 0), also after an earlier call has failed
\* part-way; one that finds the pool non-empty returns and leaves the pool as
\* it is; and a call that is creating makes the pool min_browsers long
C20_InitializeKeyedOnEmptyPool ==
    [][\A t \in Inits :
          /\ (InitializeDecides(t) /\ browsers = <<>> /\ cfg.min_browsers > 0)
             => pc'[t] \in {"pw_start", "init_create"}
          /\ (InitializeDecides(t) /\ browsers # <<>>)
             => pc'[t] = "done_ok" /\ browsers' = browsers
          /\ pc'[t] = "init_create"
             => Len(browsers') + loc'[t].todo = cfg.min_browsers]_vars

\* every instance of the pool is full and none may be added
Saturated ==
    /\ browsers # <<>>
    /\ \A k \in 1..Len(browsers) :
          inst[browsers[k]].active_tabs >= cfg.max_tabs_per_browser
    /\ ~(cfg.auto_scale /\ Len(browsers) < cfg.max_browsers)

\* caller c is at a point from which its next step runs lines 126-153 on the
\* pool as it is now
SelectsNow(c) ==
    /\ playwright
    /\ \/ pc[c] = "idle" /\ lock.owner = NoTask
       \/ pc[c] = "init_lock_wait" /\ lock.owner = c

\* C21: a call that selects under saturation is not rejected: it is sent to a
\* least-loaded instance and is admitted or waits on its semaphore; and a
\* caller that waits there is eventually admitted (or cancelled), unless a
\* holder of that instance never gave its permit back
C21_SaturatedCallerWaitsAndIsAdmitted ==
    /\ [][\A c \in Callers :
            (Saturated /\ SelectsNow(c) /\ pc'[c] \notin {pc[c], "done_cancel"})
            => /\ pc'[c] \in {"sem_wait", "new_page", "new_page_doomed"}
               /\ loc'[c].via = "fallback"
               /\ \A k \in 1..Len(browsers) :
                     inst[loc'[c].bi].active_tabs
                        <= inst[browsers[k]].active_tabs]_vars
    /\ \A c \in Callers :
          (pc[c] = "sem_wait" /\ loc[c].via = "fallback")
             ~> \/ pc[c] \in {"new_page", "new_page_doomed", "done_cancel"}
                \/ \E d \in Callers :
                      pc[d] = "done_leak" /\ loc[d].bi = loc[c].bi

\* a caller sent to the full instance by the fallback has been admitted after
\* the holder's release
C21_Witness ==
    \E c, d \in Callers :
        /\ loc[c].via = "fallback"
        /\ pc[c] \in {"new_page", "body"}
        /\ pc[d] = "done_ok"
        /\ loc[d].bi = loc[c].bi
        /\ cfg.max_tabs_per_browser = 1

\* the points at which a task waits for self.lock
LockWaitPcs ==
    {"init_lock_wait", "scale_lock_wait", "reap_lock_wait", "up_lock_wait",
     "down_lock_wait"}

\* task t waits for self.lock or for a permit and has not been given it
Blocked(t) ==
    \/ pc[t] \in LockWaitPcs /\ lock.owner # t
    \/ pc[t] = "sem_wait" /\ ~SemGranted(S, t)

\* the points at which a task waits for the engine, for a body, for its sleep
\* to end, for the delivery of a cancellation or (close, lines 245-249) for
\* the cancelled reaper task to end: it runs again without self.lock and
\* without a permit
RunPcs ==
    {"pw_start", "init_create", "scale_create", "create_doomed", "new_page",
     "new_page_doomed", "set_headers", "body", "sleep", "reap_ctx_close",
     "reap_br_close", "cancel_sleep", "cancel_lock_wait", "cancel_closing",
     "up_create", "down_ctx_close", "down_br_close", "close_reaper_wait",
     "close_ctx", "close_br", "close_pw_stop"} \cup PageCloseStates

\* task t can take a step
CanStep(t) ==
    \/ pc[t] \in RunPcs
    \/ pc[t] \in LockWaitPcs /\ lock.owner = t
    \/ SemGranted(S, t)

\* C22: there is no state in which some task is blocked on self.lock or on a
\* semaphore and no task of the system can take a step
C22_NoDeadlock ==
    ~(/\ \E t \in Tasks : Blocked(t)
      /\ \A t \in Tasks : ~CanStep(t))

\* the state s with the domain argument of call c replaced by each possible
\* one
WithDomain(s, c) == {[s EXCEPT !.loc[c].hint = d] : d \in Hints}

\* what is left of a state when the domain argument of call c is put aside;
\* the await of line 163, made only with a domain, counts as part of the await
\* of line 158
AsideDomain(s, c) ==
    [Forget(s) EXCEPT !.loc[c].hint = FALSE,
                      !.pc[c] = IF @ = "set_headers" THEN "new_page" ELSE @]

\* the states that the next step of call c can lead to from state s, c being
\* at a point up to line 158
StepsOf(s, c) ==
    LET p == s.pc[c]
    IN  CASE p = "idle" ->
               {initialize([s EXCEPT !.loc[c].post_close =
                                        (s.pc[CloserId] = "done_closed")], c)}
          [] p = "init_lock_wait" ->
               {cancel(s, c)} \cup
               (IF s.lock.owner = c THEN {initialize_locked(s, c)} ELSE {})
          [] p = "pw_start" ->
               {initialize_started(s, c), RaiseUnderLock(s, c, "done_err"),
                cancel(s, c)}
          [] p = "init_create" ->
               {initialize_created(s, c), RaiseUnderLock(s, c, "done_err"),
                cancel(s, c)}
          [] p = "scale_lock_wait" ->
               {cancel(s, c)} \cup
               (IF s.lock.owner = c THEN {create_begin(s, c, "scale_create")}
                ELSE {})
          [] p = "scale_create" ->
               {get_available_browser_created(s, c),
                RaiseUnderLock(s, c, "done_err"), cancel(s, c)}
          [] p = "create_doomed" ->
               {RaiseUnderLock(s, c, "done_err"), cancel(s, c)}
          [] p = "sem_wait" ->
               {cancel(s, c)} \cup
               (IF SemGranted(s, c) THEN {get_page_admitted(s, c)} ELSE {})
          [] p = "new_page" ->
               {get_page_open_failed(s, c), cancel(s, c)} \cup
               (IF s.inst[s.loc[c].bi].ctx # "closed"
                THEN {s, get_page_checkout(s, c)} ELSE {})
          [] p = "new_page_doomed" ->
               {get_page_open_failed(s, c), cancel(s, c)}

\* C23: whatever step a call takes up to its checkout, the same call given any
\* other domain argument can take a step to the same state, the argument
\* aside: the same instance selected, the same instances created, the same
\* pool, active_tabs and permits
C23_DomainNeverAffectsAdmission ==
    [][\A c \in Callers :
          (pc[c] \in HintLive /\ pc'[c] # pc[c])
          => \A a \in WithDomain(S, c) :
                \E n \in StepsOf(a, c) :
                    AsideDomain(n, c) = AsideDomain(S', c)]_vars

\* a call with a domain and a call without one have been admitted by the same
\* instance
C23_Witness ==
    \E c, d \in Callers :
        /\ pc[c] = "set_headers"
        /\ pc[d] = "new_page"
        /\ ~loc[d].hint
        /\ loc[c].bi = loc[d].bi

\* C24: when the body of a checked-out session raises, failed_requests grows
\* by one and successful_requests by nothing, and the call ends with the
\* body's error, not with an error of the release path (a caller cancelled
\* inside page.close() receives nothing)
C24_BodyErrorReachesCaller ==
    [][\A c \in Callers :
          /\ (pc[c] = "body" /\ pc'[c] = "page_close_err")
             => /\ stats'.failed_requests = stats.failed_requests + 1
                /\ stats'.successful_requests = stats.successful_requests
                /\ loc'[c].exc = "body"
          /\ (/\ pc[c] = "page_close_err"
              /\ loc[c].exc = "body"
              /\ pc'[c] \notin {"page_close_err", "done_leak"})
             => /\ pc'[c] = "done_err"
                /\ loc'[c].exc = "body"
                /\ stats'.failed_requests = stats.failed_requests
                /\ stats'.successful_requests = stats.successful_requests]_vars

\* the active-tab count that get_stats() reports in the current state
ReportedActiveTabs == get_stats(S).active_tabs

\* C25: the checkout of a session raises the count that get_stats() reports
\* by one; while the session is held and no other call has been made, the
\* count does not change; and the release of the session lowers it by one
\* again
C25_AcquireReleaseRoundTrip ==
    [][\A c \in Callers :
          /\ (pc[c] \in {"new_page", "set_headers"} /\ pc'[c] = "body")
             => ReportedActiveTabs' = ReportedActiveTabs + 1
          /\ (/\ pc[c] = "body" /\ pc'[c] = "body"
              /\ \A d \in Callers \ {c} : pc[d] = "idle" /\ pc'[d] = "idle")
             => ReportedActiveTabs' = ReportedActiveTabs
          /\ (/\ \/ pc[c] = "page_close_ok"
                 \/ pc[c] = "page_close_err" /\ loc[c].exc = "body"
              /\ pc'[c] \in {"done_ok", "done_err", "done_valerr"})
             => ReportedActiveTabs' = ReportedActiveTabs - 1]_vars

\* the configuration that the manager was constructed with is a valid one
ValidConfiguration ==
    /\ cfg.min_browsers >= 0
    /\ cfg.max_browsers >= 1
    /\ cfg.max_tabs_per_browser >= 1
    /\ cfg.min_browsers <= cfg.max_browsers

\* C26: no manager with an invalid configuration exists: the constructor has
\* rejected min_browsers > max_browsers, max_browsers < 1,
\* max_tabs_per_browser < 1 and a negative min_browsers
C26_InvalidConfigurationRejected == ValidConfiguration

\* task t serves GET /debug/reset-stats in this step
Resets(t) == pc[t] = "idle" /\ pc'[t] = "done_reset"

\* the pool's instances, their order, active_tabs and permits are the same
\* after the step as before
TopologyUnchanged ==
    /\ browsers' = browsers
    /\ Len(inst') = Len(inst)
    /\ \A i \in InstIds :
          /\ inst'[i].active_tabs = inst[i].active_tabs
          /\ inst'[i].sem = inst[i].sem
          /\ inst'[i].semq = inst[i].semq
          /\ inst'[i].ctx = inst[i].ctx

\* C27 as stated: the reset sets all seven running counters to zero and
\* leaves the topology as it was
C27_ResetZeroesEveryCounter ==
    [][\A t \in Scalers :
          Resets(t)
          => /\ stats'.total_requests = 0
             /\ stats'.successful_requests = 0
             /\ stats'.failed_requests = 0
             /\ stats'.peak_active_tabs = 0
             /\ stats'.peak_browsers = 0
             /\ stats'.browsers_created = 0
             /\ stats'.browsers_closed = 0
             /\ TopologyUnchanged]_vars

\* C27 amended: the reset sets total_requests, successful_requests,
\* failed_requests, peak_active_tabs and browsers_closed to zero, sets
\* browsers_created and peak_browsers to the current size of the pool, and
\* leaves the topology as it was
C27_ResetReseedsPoolCounters ==
    [][\A t \in Scalers :
          Resets(t)
          => /\ stats'.total_requests = 0
             /\ stats'.successful_requests = 0
             /\ stats'.failed_requests = 0
             /\ stats'.peak_active_tabs = 0
             /\ stats'.browsers_closed = 0
             /\ stats'.browsers_created = Len(browsers)
             /\ stats'.peak_browsers = Len(browsers)
             /\ TopologyUnchanged]_vars

\* the statistics have been reset while a session was held, after another one
\* had completed
C27_Witness ==
    \E t \in Scalers : \E c, d \in Callers :
        /\ pc[t] = "done_reset"
        /\ pc[c] = "body"
        /\ pc[d] = "done_ok"
        /\ stats.total_requests = 0
        /\ stats.browsers_created = Len(browsers)
        /\ browsers # <<>>

\* the points a call is at when _get_available_browser has returned or has
\* gone on to create an instance
SelectedPcs ==
    {"sem_wait", "new_page", "new_page_doomed", "scale_lock_wait",
     "scale_create", "done_valerr"}

\* call c runs _get_available_browser in this step: initialize() returns to it
\* without suspending, or after its last await
RunsSelection(c) ==
    /\ \/ SelectsNow(c)
       \/ pc[c] = "init_create" /\ loc[c].todo = 1
       \/ pc[c] = "pw_start" /\ cfg.min_browsers <= 0
    /\ pc'[c] \in SelectedPcs

\* the positions of the pool whose instance has a free slot after the step
\* (the selection changes neither the pool nor any active_tabs)
RoomAfter ==
    {k \in 1..Len(browsers') :
        inst'[browsers'[k]].active_tabs < cfg.max_tabs_per_browser}

\* C28: when some instance has active_tabs < max_tabs_per_browser, the call
\* gets the first such instance in pool order, by the scan and not by the
\* least-loaded fallback, and no instance is created
C28_FirstInstanceWithRoom ==
    [][\A c \in Callers :
          (RunsSelection(c) /\ RoomAfter # {})
          => /\ loc'[c].via = "scan"
             /\ pc'[c] \in {"sem_wait", "new_page", "new_page_doomed"}
             /\ \E k \in RoomAfter :
                   /\ loc'[c].bi = browsers'[k]
                   /\ \A j \in RoomAfter : k <= j
             /\ SelectsNow(c)
                => browsers' = browsers /\ Len(inst') = Len(inst)]_vars

\* a call has been given the first of two instances that both have room
C28_Witness ==
    \E c \in Callers :
        /\ pc[c] = "new_page"
        /\ loc[c].via = "scan"
        /\ Len(browsers) = 2
        /\ loc[c].bi = browsers[1]
        /\ \A k \in 1..2 :
              inst[browsers[k]].active_tabs < cfg.max_tabs_per_browser
        /\ inst[browsers[2]].sem > 0

\* C29: a call goes to create an instance only when every instance is full;
\* it adds the instance to the pool (line 137) only when, at that moment, it
\* holds self.lock, auto_scale is set and the pool has fewer than max_browsers
\* instances; and without auto_scale no call is ever in the creating branch,
\* so that a call changes the size of the pool only inside initialize()
C29_CreatesOnlyBelowMax ==
    [][\A c \in Callers :
          /\ (RunsSelection(c) /\ pc'[c] \in {"scale_lock_wait", "scale_create"})
             => RoomAfter = {}
          /\ (pc[c] = "scale_create" /\ Len(browsers') > Len(browsers))
             => /\ lock.owner = c
                /\ cfg.auto_scale
                /\ Len(browsers) < cfg.max_browsers
          /\ ~cfg.auto_scale
             => /\ pc'[c] \notin {"scale_lock_wait", "scale_create"}
                /\ (pc[c] # "init_create" /\ pc'[c] # pc[c])
                   => Len(browsers') = Len(browsers)]_vars

\* C30: the checkout of a session leaves the instance's total_requests and
\* last_used as they were; the release (lines 200-205) is made by a caller that
\* holds self.lock, and it is the step that adds one to total_requests and
\* sets last_used to the current time, together with taking one from
\* active_tabs and giving the permit back
C30_ReleaseUnderLockStampsInstance ==
    [][\A c \in Callers :
          LET i == loc[c].bi
          IN  /\ (pc[c] \in {"new_page", "set_headers"} /\ pc'[c] = "body")
                 => /\ inst'[i].total_requests = inst[i].total_requests
                    /\ inst'[i].last_used = inst[i].last_used
              /\ (/\ pc[c] \in PageCloseStates
                  /\ pc'[c] \in {"done_ok", "done_err", "done_cancel",
                                 "done_valerr"})
                 => /\ lock.owner = c
                    /\ inst'[i].total_requests = inst[i].total_requests + 1
                    /\ inst'[i].last_used = now
                    /\ inst'[i].active_tabs = inst[i].active_tabs - 1
                    /\ \/ inst'[i].sem = inst[i].sem + 1
                       \/ inst'[i].semq = Tail(inst[i].semq)]_vars

\* the points inside a mutation of the pool: an instance is being created
\* (initialize, _get_available_browser, a scale-up) or closed for removal
\* (the reaper, a scale-down, close())
MutationPcs ==
    {"init_create", "scale_create", "up_create", "create_doomed",
     "reap_ctx_close", "reap_br_close", "cancel_closing", "down_ctx_close",
     "down_br_close", "close_ctx", "close_br"}

Mutating == {t \in Tasks : pc[t] \in MutationPcs}

\* C31: at most one mutation of the pool is in progress at any time, and the
\* task that makes it holds self.lock
C31_MutationsMutuallyExclusive ==
    /\ Cardinality(Mutating) <= 1
    /\ \A t \in Mutating : lock.owner = t

\* context.close() of the marked instance at the head of the reaper's list
\* raises an Exception in this step (line 231; line 233 catches it)
ReapCloseFails ==
    /\ pc[ReaperId] = "reap_ctx_close"
    /\ pc'[ReaperId] \notin {"reap_br_close", "cancel_closing"}
    /\ pc'[ReaperId] # pc[ReaperId] \/ loc'[ReaperId] # loc[ReaperId]

\* C32: when the close of a marked instance fails, that instance is removed
\* from the pool and counted in browsers_closed all the same, the tick goes on
\* to close the next marked instance, and after the last one the reaper
\* releases the lock and sleeps until its next tick
C32_ReaperCloseFailureKeepsTick ==
    [][ReapCloseFails
       => LET rm == loc[ReaperId].rm
          IN  /\ browsers' = Remove(browsers, Head(rm))
              /\ Len(browsers') = Len(browsers) - 1
              /\ stats'.browsers_closed = stats.browsers_closed + 1
              /\ loc'[ReaperId].rm = Tail(rm)
              /\ IF Tail(rm) = <<>>
                 THEN pc'[ReaperId] = "sleep" /\ lock'.owner # ReaperId
                 ELSE /\ pc'[ReaperId] = "reap_ctx_close"
                      /\ lock'.owner = ReaperId
                      /\ inst'[Head(Tail(rm))].ctx # "open"]_vars

\* the close of the first of two marked instances has failed: it is out of the
\* pool and counted, and the second one is being closed
C32_Witness ==
    /\ pc[ReaperId] = "reap_ctx_close"
    /\ Len(loc[ReaperId].rm) = 1
    /\ stats.browsers_closed = 1
    /\ \E i \in 1..Len(inst) :
          /\ i \notin Range(browsers)
          /\ inst[i].ctx = "closing"

\* the reaper task exists and has neither ended nor been cancelled
ReaperLive ==
    pc[ReaperId] \in {"sleep", "reap_lock_wait", "reap_ctx_close",
                      "reap_br_close"}

\* C33: whenever the driver is started and no initialize() call is under way,
\* the reaper task is alive (there is never more than one: the model has a
\* single reaper task, started only when self.cleanup_task is None)
C33_ReaperAliveWhileInitialized ==
    (/\ playwright
     /\ \A t \in Tasks : pc[t] \notin {"pw_start", "init_create"})
    => ReaperLive


\* the step in which a get_page call whose page could not be opened (line 158
\* or line 163 raised) leaves its finally block
OpenFailureEnds(c) ==
    /\ \/ pc[c] \in {"new_page", "new_page_doomed"}
       \/ pc[c] = "page_close_err" /\ loc[c].exc = "set_headers"
    /\ pc'[c] \in {"done_err", "done_valerr"}

\* C34: when opening the page fails after admission, the caller gets an error,
\* the permit goes back to the semaphore (or to its first waiter) and the
\* instance's active_tabs is what it was before: the call never counted itself
C34_OpenFailureLeavesInstanceAsBefore ==
    [][\A c \in Tasks :
         OpenFailureEnds(c)
         => LET i == loc[c].bi
            IN  /\ loc'[c].exc # "none"
                /\ \/ inst'[i].sem = inst[i].sem + 1
                   \/ inst[i].semq # <<>> /\ inst'[i].semq = Tail(inst[i].semq)
                /\ inst'[i].active_tabs = inst[i].active_tabs]_vars


\* C35: for every instance ever created, the free permits of its semaphore
\* are between 0 and max_tabs_per_browser, and free permits plus active_tabs
\* never exceed max_tabs_per_browser
C35_PermitsWithinCapacity ==
    \A i \in 1..Len(inst) :
        /\ inst[i].sem >= 0
        /\ inst[i].sem <= cfg.max_tabs_per_browser
        /\ inst[i].sem + inst[i].active_tabs <= cfg.max_tabs_per_browser

\* one caller has returned its permit while another holds a page on the same
\* instance: one permit free, one in use
C35_Witness ==
    \E c, d \in Callers :
        /\ pc[c] = "done_ok"
        /\ pc[d] = "body"
        /\ loc[c].bi = loc[d].bi
        /\ inst[loc[d].bi].sem = 1
        /\ inst[loc[d].bi].active_tabs = 1
        /\ cfg.max_tabs_per_browser = 2


\* the calls that are inside the body of their async with block
CheckedOut == {c \in Tasks : pc[c] = "body"}

\* C36: without a stats reset, successful_requests + failed_requests never
\* exceeds total_requests, and the difference is the number of sessions that
\* are checked out
C36_OutcomesNeverExceedStarted ==
    /\ stats.successful_requests + stats.failed_requests <= stats.total_requests
    /\ stats.total_requests
           - (stats.successful_requests + stats.failed_requests)
       = Cardinality(CheckedOut)


\* C37: with no close() in the run, the instance selected for a caller stays
\* in the pool from the selection (line 150) until the caller's release
\* (line 201), whatever the reaper and the scale-downs do meanwhile
C37_SelectedInstanceStaysInPool ==
    \A c \in Callers :
        (pc[c] = "sem_wait" \/ pc[c] \in AdmittedPcs)
        => loc[c].bi \in Range(browsers)


\* C38: when the body of a checked-out session completes normally, the call
\* is counted as a success and the finally block ends without an error: the
\* call returns normally, also when the instance left the pool meanwhile (a
\* caller cancelled inside page.close() is not the release path's doing)
C38_ReleaseNeverRaises ==
    [][\A c \in Callers :
          /\ (pc[c] = "body" /\ pc'[c] = "page_close_ok")
             => /\ stats'.successful_requests = stats.successful_requests + 1
                /\ stats'.failed_requests = stats.failed_requests
          /\ (pc[c] = "page_close_ok"
              /\ pc'[c] \notin {"page_close_ok", "done_leak"})
             => /\ pc'[c] = "done_ok"
                /\ loc'[c].exc = "none"]_vars


\* C39: whenever the driver is started and no initialize() call is under way,
\* the pool is non-empty or _get_available_browser may create an instance, and
\* no get_page call ever fails in the selection on an empty pool
C39_SelectionAlwaysYieldsInstance ==
    /\ (/\ playwright
        /\ \A t \in Tasks : pc[t] \notin {"pw_start", "init_create"})
       => (browsers # <<>> \/ MayAutoScale(S))
    /\ \A c \in Callers : ~(pc[c] = "done_valerr" /\ loc[c].exc = "min")

====
